---- MODULE Spec2Model ----
(***************************************************************************)
(* uvsib: the intake (workflows/workflows.py), the submission controller   *)
(* (workchains/submit.py, launch_calculations.py), the per-composition     *)
(* orchestrator MainWorkChain (workchains/main.py), its first stage        *)
(* PhaseDiagramMLWorkChain (workchains/phase_diagram.py) and the fan-in    *)
(* steps of CSPWorkChain and GenWorkChain (workchains/csp.py, gen.py),     *)
(* over the tables DBFrontend, DBComposition and DBChemsys (db/tables.py). *)
(*                                                                         *)
(* One action is one intake entry or one outline step of a work chain.     *)
(* The conditions of if_/while_ read only the row cached in the context,   *)
(* so they are evaluated together with the step that precedes them.        *)
(* A sub-workchain and a PythonJob are external jobs: the step that        *)
(* inspects one draws its is_finished_ok.                                  *)
(* DBFrontend.status / step_status mirror DBComposition for display        *)
(* (update_dbfrontend); nothing reads them back, and they are left out:    *)
(* a DBFrontend row is its (username, composition) pair.                   *)
(***************************************************************************)
EXTENDS Integers, Sequences, FiniteSets, TLC

\* ------------------------------------------------------------- bounds
NumUsers == 2
MaxProcs == 2
NumUsersInterrupted == 2
MaxProcsInterrupted == 5
MaxJobs == 10
NumCallers == 2
MaxProcsCap == 6
MaxVersionRows == 2
MaxEntries == 3
NumRuns == 2
NumMH == 2
MaxJobEntries == 1
MaxSlabs == 2
MaxGenEntries == 2
MaxStructures == 2

\* ------------------------------------------------------------- program constants
max_concurrent == 5
\* exit codes: MainWorkChain, CSPWorkChain, GenWorkChain
ERROR_CALCULATION_FAILED == 300
ERROR_CSP_FAILED == 301
ERROR_MINIMAHOPPING_FAILED == 303
ERROR_GENERATIVE_FAILED == 301
ERROR_ML_RELAX_FAILED == 302

Max(a, b) == IF a >= b THEN a ELSE b

Users == 1..NumUsers
UsersInterrupted == 1..NumUsersInterrupted
Procs == 1..Max(MaxProcs, Max(MaxProcsInterrupted, MaxProcsCap))

\* The formulas a frontend entry may carry, and pymatgen's reduced formula of each.
Formulas == {"TiO2", "Ti2O4", "ZnO"}
reduced_formula(f) == IF f = "Ti2O4" THEN "TiO2" ELSE f
Compositions == {reduced_formula(f) : f \in Formulas}

\* sorted elements of a formula, and every non-empty combination joined by "-"
chemical_subsystems(f) ==
    IF f = "TiO2" THEN {"O", "Ti", "O-Ti"} ELSE {"O", "Zn", "O-Zn"}
ChemSystems == UNION {chemical_subsystems(c) : c \in Compositions}
\* the same in the order get_chemical_systems lists them
subsystems(f) ==
    IF f = "TiO2" THEN <<"O", "Ti", "O-Ti">> ELSE <<"O", "Zn", "O-Zn">>

\* the outline of MainWorkChain: the stages in order, by their step_status key
StageKeys == <<"pd_ml", "pd_verification", "band_alignment", "surface_builder", "adsorbates">>
Stages == 1..5
NoKey == "None"
EmptyStepStatus == [s \in Stages |-> NoKey]

NoRow == [status |-> "NoRow", step_status |-> EmptyStepStatus, stable_struct |-> "NULL"]
\* DBComposition column defaults
NewCompositionRow ==
    [status |-> "Created", step_status |-> EmptyStepStatus, stable_struct |-> "NULL"]

NoRequest == [seen |-> FALSE, retry |-> FALSE, status |-> "None", active |-> 0,
              active_same |-> 0, submitted |-> FALSE, chemsys_added |-> FALSE]

VARIABLES
    db_frontend,      \* DBFrontend: the set of <<username, composition>> rows
    db_composition,   \* DBComposition: composition -> row (NoRow: no such row)
    db_chemsys,       \* DBChemsys: chemsys -> "absent" | "NULL" | "Ready" (gen_structures)
    pc,               \* per MainWorkChain process: the outline step it is at
    stage,            \* per process: the stage of that step (0: none)
    formula,          \* per process: inputs.chemical_formula
    chemical_systems, \* per process: inputs.chemical_systems
    ctx_row,          \* per process: ctx.dbcomposition_row.step_status
    exit_status,      \* per process: 0, or 300 (ERROR_CALCULATION_FAILED)
    loaded,           \* per process: the step_status setup read (history)
    launched,         \* per process: the stages whose sub-workchain it submitted (history)
    is_finished_ok,   \* per process: what its last inspect step observed (history)
    last_request,     \* what the last intake entry saw and did (history)
    fan,              \* the fan-in step under test (specification SpecFanIn)
    sub,              \* per process: its PhaseDiagramMLWorkChain (specification SpecPD)
    call,             \* per caller: its call of add_from_frontend (specification SpecCallers)
    db_structure_version, \* DBStructureVersion: the set of rows (specification SpecVersions)
    version_call,     \* per caller: its call of add_version_to_existing_structure
    entries,          \* the list of entries a caller passes to the stability filter
    chemical_system,  \* the chemical system the filter is called for
    stable_entries,   \* what the filter returned
    refiltered_entries, \* what the filter returned for its own output
    filter_pc,        \* where the caller of the filter is (specification SpecFilter)
    db_structure,     \* DBStructure: the set of rows
    mh_outputs,       \* per minima-hopping job of mh_energies: its outcome (SpecMH)
    db_surface,       \* DBSurface: the set of rows
    surface,          \* the SurfaceBuilderWorkChain of a composition (SpecSurface)
    delete_call,      \* the last call of delete_structure (history, SpecDelete)
    gen,              \* the store_ml_energies step of a GenWorkChain (SpecGen)
    run               \* per run of the stages of a composition: where it is (SpecStages)

\* the tables of structures and what works on them
versionvars == <<db_structure_version, version_call>>
filtervars == <<entries, chemical_system, stable_entries, refiltered_entries, filter_pc>>
stagevars == <<db_structure, run>>
mhvars == <<mh_outputs>>
surfacevars == <<db_surface, surface>>
toolvars == <<delete_call, gen>>
storevars == <<versionvars, filtervars, stagevars, mhvars, surfacevars, toolvars>>

vars == <<db_frontend, db_composition, db_chemsys, pc, stage, formula, chemical_systems,
          ctx_row, exit_status, loaded, launched, is_finished_ok, last_request, fan, sub, call, storevars>>

dbvars == <<db_frontend, db_composition, db_chemsys>>
procvars == <<pc, stage, formula, chemical_systems, ctx_row, exit_status, loaded,
              launched, is_finished_ok, sub>>

\* the jobs of a fan-out by how they ended: not finished ok ("failed"), finished ok
\* with an output that cannot be read ("no_output"), finished ok with an empty
\* list ("empty"), finished ok with structures ("ok")
NoJobs == [failed |-> 0, no_output |-> 0, empty |-> 0, ok |-> 0]
NoFan == [kind |-> "none", n |-> 0, jobs |-> NoJobs, done |-> FALSE, exit |-> 0]

\* no PhaseDiagramMLWorkChain followed for the process
NoSub == [pc |-> "none", exit |-> 0, gen_ok |-> TRUE, moveon |-> FALSE]

\* the callers of add_from_frontend, and one that is not in a call
Callers == 1..NumCallers
NoCall == [pc |-> "idle", formula |-> "None", new_chemsys |-> <<>>, todo |-> <<>>]

\* DBStructureVersion: the structure the versions belong to, the methods, the
\* results (structure and energy) a caller may supply, and the conflict policies
StructureUuid == "x"
Methods == {"r2SCAN", "PBE"}
Results == {"v1", "v2"}
OnConflict == {"error", "ignore", "override"}
\* the runs of the stages of one composition, and the uuids there are for structures
Runs == 1..NumRuns
StructureUuids == <<"x", "y", "z">>
NoRun == [pc |-> "absent", struct_uuid |-> {}, scan_jobs |-> {}, scan_entries |-> {},
          exit_status |-> 0, pd_verification |-> "None"]

\* no SurfaceBuilderWorkChain submitted
NoSurface == [pc |-> "none", struct_uuid |-> {}, slabs_uuid |-> <<>>, exit_status |-> 0,
              structure_surface_rows |-> {}]

\* no call of delete_structure yet; no GenWorkChain at store_ml_energies
NoDelete == [structure_filters |-> <<>>, version_filters |-> <<>>,
             versions_to_delete |-> {}]
NoGen == [pc |-> "none", chemical_systems |-> <<>>, i |-> 1, ml_e |-> <<>>,
          low_energy_entries |-> <<>>, failed_ml_e |-> {}, exit_status |-> 0]

NoVersionCall ==
    [pc |-> "idle", method |-> "None", on_conflict |-> "None",
     add_attributes |-> <<>>, existing_version |-> 0, returned |-> "None"]

\* ------------------------------------------------------------- processes
Terminated == {"finished", "excepted", "killed"}
IsActive(p) == pc[p] \notin ({"absent"} \cup Terminated)
ActiveProcs == {p \in Procs : IsActive(p)}
ActiveFor(c) == {p \in Procs : IsActive(p) /\ formula[p] = c}
NumSubmitted == Cardinality({p \in Procs : pc[p] # "absent"})

\* ------------------------------------------------------------- db/utils.py
\* a write that is never committed
update_row_uncommitted(table, uuid, columns_values) == table

\* update_row: UPDATE ... WHERE uuid = row.uuid, committed; no row, no change
update_row(table, uuid, columns_values) ==
    IF table[uuid] = NoRow THEN table
    ELSE [table EXCEPT ![uuid] =
             [col \in DOMAIN @ |-> IF col \in DOMAIN columns_values
                                   THEN columns_values[col] ELSE @[col]]]

\* get_chemical_systems called with new=False: all the subsystems
all_chemical_systems(chemical_formula) == chemical_subsystems(chemical_formula)

\* get_chemical_systems(chemical_formula, new=True)
new_chemical_systems(chemical_formula) ==
    {s \in chemical_subsystems(chemical_formula) : db_chemsys[s] = "absent"}

\* ------------------------------------------------------------- submit.py
\* submit_new_batch: the one new (uuid_str, formula) extra is submitted
\* unless max_concurrent processes of the group are active
num_available_slots == Max(0, max_concurrent - Cardinality(ActiveProcs))
\* a controller that submits whatever the number of active processes
can_submit_always == TRUE
can_submit == num_available_slots > 0

\* ------------------------------------------------------------- workflows.py
\* a test under which a known requester is never served again
is_ignored_known_user(user_already_exists, retry, status) == user_already_exists

\* a test that honours retry whatever the status
is_ignored_without_retry(user_already_exists, retry, status) ==
    user_already_exists /\ ~retry

\* the user_already_exists / retry / status test of add_from_frontend
is_ignored(user_already_exists, retry, status) ==
    user_already_exists /\ (~retry \/ status = "Running")

add_from_frontend(user, entry_formula, retry, max_procs) ==
    LET chemical_formula == reduced_formula(entry_formula)
        user_already_exists == <<user, chemical_formula>> \in db_frontend
        existing_composition == db_composition[chemical_formula]
        ignored == is_ignored(user_already_exists, retry, existing_composition.status)
        new_chemsys == new_chemical_systems(chemical_formula)
        submit == ~ignored /\ can_submit
        p == NumSubmitted + 1
    IN  /\ submit => NumSubmitted < max_procs
        /\ db_frontend' = db_frontend \cup {<<user, chemical_formula>>}
        /\ db_composition' =
              IF existing_composition = NoRow
              THEN [db_composition EXCEPT ![chemical_formula] = NewCompositionRow]
              ELSE db_composition
        /\ db_chemsys' =
              IF ignored THEN db_chemsys
              ELSE [s \in ChemSystems |-> IF s \in new_chemsys THEN "NULL" ELSE db_chemsys[s]]
        /\ IF submit
           THEN /\ pc' = [pc EXCEPT ![p] = "setup"]
                /\ formula' = [formula EXCEPT ![p] = chemical_formula]
                /\ chemical_systems' = [chemical_systems EXCEPT ![p] = new_chemsys]
           ELSE UNCHANGED <<pc, formula, chemical_systems>>
        /\ last_request' =
              [seen |-> user_already_exists, retry |-> retry,
               status |-> existing_composition.status,
               active |-> Cardinality(ActiveProcs),
               active_same |-> Cardinality(ActiveFor(chemical_formula)),
               submitted |-> submit,
               chemsys_added |-> db_chemsys' # db_chemsys]
        /\ UNCHANGED <<stage, ctx_row, exit_status, loaded, launched, is_finished_ok, fan, sub, call, storevars>>

\* ------------------------------------------------------------- main.py
\* a guard that ignores the loaded status
should_run_always(row, s) == TRUE
should_run(row, s) == row[s] # "Done"
should_wait(row, s) == row[s] = "Running"

\* The outline from the if_ of stage s on: the next step to execute, or the end.
RECURSIVE outline_from(_, _)
outline_from(row, s) ==
    IF s > 5 THEN [pc |-> "finished", stage |-> 0]
    ELSE IF ~should_run(row, s) THEN outline_from(row, s + 1)
    ELSE IF should_wait(row, s) THEN [pc |-> "wait_sleep", stage |-> s]
    ELSE [pc |-> "run", stage |-> s]

Goto(p, at) ==
    /\ pc' = [pc EXCEPT ![p] = at.pc]
    /\ stage' = [stage EXCEPT ![p] = at.stage]

\* last_request describes the entry just processed, and only in the state it left
Seen(p) == last_request' = NoRequest

setup(p) ==
    /\ pc[p] = "setup"
    /\ LET row == db_composition[formula[p]]
       IN  IF row = NoRow
           THEN /\ Goto(p, [pc |-> "excepted", stage |-> 0])
                /\ UNCHANGED <<ctx_row, loaded>>
           ELSE /\ ctx_row' = [ctx_row EXCEPT ![p] = row.step_status]
                /\ loaded' = [loaded EXCEPT ![p] = row.step_status]
                /\ Goto(p, outline_from(row.step_status, 1))
    /\ Seen(p)
    /\ UNCHANGED <<dbvars, formula, chemical_systems, exit_status, launched,
                   is_finished_ok, fan, sub, call, storevars>>

\* wait_sleep: submit the sleeping PythonJob
wait_sleep(p) ==
    /\ pc[p] = "wait_sleep"
    /\ Goto(p, [pc |-> "check_pythonjob_sleep", stage |-> stage[p]])
    /\ Seen(p)
    /\ UNCHANGED <<dbvars, formula, chemical_systems, ctx_row, exit_status, loaded,
                   launched, is_finished_ok, fan, sub, call, storevars>>

\* check_pythonjob_sleep, then the while_ condition of the stage again
check_pythonjob_sleep(p) ==
    /\ pc[p] = "check_pythonjob_sleep"
    /\ \E ok \in BOOLEAN :
          /\ is_finished_ok' = [is_finished_ok EXCEPT ![p] = ok]
          /\ IF ~ok
             THEN /\ Goto(p, [pc |-> "finished", stage |-> stage[p]])
                  /\ exit_status' = [exit_status EXCEPT ![p] = ERROR_CALCULATION_FAILED]
             ELSE /\ Goto(p, IF should_wait(ctx_row[p], stage[p])
                             THEN [pc |-> "wait_sleep", stage |-> stage[p]]
                             ELSE [pc |-> "run", stage |-> stage[p]])
                  /\ UNCHANGED exit_status
    /\ Seen(p)
    /\ UNCHANGED <<dbvars, formula, chemical_systems, ctx_row, loaded, launched, fan, sub, call, storevars>>

\* pd_ml, pd_verification, band_alignment, surface_builder, adsorbates:
\* mark the stage Running in the cached row, write the row, build and submit
run_stage(p) ==
    /\ pc[p] = "run"
    /\ LET s == stage[p]
           step_status == [ctx_row[p] EXCEPT ![s] = "Running"]
       IN  /\ ctx_row' = [ctx_row EXCEPT ![p] = step_status]
           /\ db_composition' = update_row(db_composition, formula[p],
                                    [status |-> "Running", step_status |-> step_status])
           /\ Goto(p, [pc |-> "inspect", stage |-> s])
           /\ launched' = [launched EXCEPT ![p] = @ \cup {s}]
    /\ Seen(p)
    /\ UNCHANGED <<db_frontend, db_chemsys, formula, chemical_systems, exit_status,
                   loaded, is_finished_ok, fan, sub, call, storevars>>

\* the new DBComposition.status an inspect step writes on success
status_after(s) == IF s = 5 THEN "Done" ELSE "Running"

\* a failure that is recorded but does not end the run
inspect_failed_continues(p) ==
    LET s == stage[p]
        step_status == [ctx_row[p] EXCEPT ![s] = "Failed"]
    IN  /\ ctx_row' = [ctx_row EXCEPT ![p] = step_status]
        /\ db_composition' = update_row(db_composition, formula[p],
                                 [status |-> "Failed", step_status |-> step_status])
        /\ Goto(p, outline_from(step_status, s + 1))
        /\ UNCHANGED exit_status

\* a failure that ends the run with the stage recorded but the row's status left
inspect_failed_status_left(p) ==
    LET s == stage[p]
        step_status == [ctx_row[p] EXCEPT ![s] = "Failed"]
    IN  /\ ctx_row' = [ctx_row EXCEPT ![p] = step_status]
        /\ db_composition' = update_row(db_composition, formula[p],
                                 [status |-> "Running", step_status |-> step_status])
        /\ Goto(p, [pc |-> "finished", stage |-> s])
        /\ exit_status' = [exit_status EXCEPT ![p] = ERROR_CALCULATION_FAILED]

\* inspect_*: the sub-workchain did not finish ok
inspect_failed(p) ==
    LET s == stage[p]
        step_status == [ctx_row[p] EXCEPT ![s] = "Failed"]
    IN  /\ ctx_row' = [ctx_row EXCEPT ![p] = step_status]
        /\ db_composition' = update_row(db_composition, formula[p],
                                 [status |-> "Failed", step_status |-> step_status])
        /\ Goto(p, [pc |-> "finished", stage |-> s])
        /\ exit_status' = [exit_status EXCEPT ![p] = ERROR_CALCULATION_FAILED]

\* inspect_*: the sub-workchain finished ok
inspect_ok(p) ==
    LET s == stage[p]
        step_status == [ctx_row[p] EXCEPT ![s] = "Done"]
    IN  /\ ctx_row' = [ctx_row EXCEPT ![p] = step_status]
        /\ db_composition' = update_row(db_composition, formula[p],
                                 [status |-> status_after(s), step_status |-> step_status])
        /\ Goto(p, outline_from(step_status, s + 1))
        /\ UNCHANGED exit_status

\* the values is_finished_ok of the sub-workchain of stage s can take: the outline
\* of AdsorbatesWorkChain leaves setup with ERROR_NO_STRUCTURES_FOUND or reaches
\* store_results, whose assertion fails, so that it never finishes ok
is_finished_ok_values(s) == IF s = 5 THEN {FALSE} ELSE BOOLEAN

\* inspect_* of the stage of p, the sub-workchain's is_finished_ok being one of values
inspect_stage(p, values) ==
    /\ pc[p] = "inspect"
    /\ \E ok \in values :
          /\ is_finished_ok' = [is_finished_ok EXCEPT ![p] = ok]
          /\ IF ok THEN inspect_ok(p) ELSE inspect_failed(p)
    /\ Seen(p)
    /\ UNCHANGED <<db_frontend, db_chemsys, formula, chemical_systems, loaded,
                   launched, fan, sub, call, storevars>>

inspect(p) == inspect_stage(p, is_finished_ok_values(stage[p]))

\* a process killed by the operator or lost with its daemon worker while it
\* waits for its sub-workchain
killed(p) ==
    /\ pc[p] = "inspect"
    /\ Goto(p, [pc |-> "killed", stage |-> stage[p]])
    /\ Seen(p)
    /\ UNCHANGED <<dbvars, formula, chemical_systems, ctx_row, exit_status, loaded,
                   launched, is_finished_ok, fan, sub, call, storevars>>

MainWorkChain(p) ==
    \/ setup(p)
    \/ wait_sleep(p)
    \/ check_pythonjob_sleep(p)
    \/ run_stage(p)
    \/ inspect(p)
    \/ killed(p)

\* ------------------------------------------------------------- csp.py, gen.py
\* the fan-in steps; each returns the exit code of the step (0: the outline goes on)
failed_jobs(jobs) == jobs.failed + jobs.no_output

\* a fan-in that tolerates no failure at all
inspect_csp_calcs_strict(n_csp, jobs) ==
    IF failed_jobs(jobs) > 0 \/ jobs.ok = 0 THEN ERROR_CSP_FAILED ELSE 0

\* CSPWorkChain.inspect_csp_calcs: csp_structures is what the "ok" jobs delivered
inspect_csp_calcs(n_csp, jobs) ==
    IF jobs.ok = 0 THEN ERROR_CSP_FAILED
    ELSE IF 2 * failed_jobs(jobs) > n_csp THEN ERROR_CSP_FAILED
    ELSE 0

\* CSPWorkChain.mh_energies, up to its failure test
mh_energies(n_mh, jobs) ==
    IF jobs.ok = 0 \/ 2 * failed_jobs(jobs) > n_mh THEN ERROR_MINIMAHOPPING_FAILED
    ELSE 0

\* GenWorkChain.inspect_gen_calcs
inspect_gen_calcs(n, jobs) ==
    IF jobs.failed > 0 THEN ERROR_GENERATIVE_FAILED ELSE 0

FanKinds == {"csp", "mh", "gen"}
\* MatterGen's parser rejects an empty list; inspect_gen_calcs reads is_finished_ok only
Tallies(kind, n) ==
    {j \in [failed : 0..n, no_output : 0..n, empty : 0..n, ok : 0..n] :
        /\ j.failed + j.no_output + j.empty + j.ok = n
        /\ kind = "csp" => j.empty = 0
        /\ kind = "gen" => j.empty = 0 /\ j.no_output = 0}

FanIn(step_exit) ==
    /\ ~fan.done
    /\ fan' = [fan EXCEPT !.done = TRUE, !.exit = step_exit]
    /\ UNCHANGED <<dbvars, procvars, last_request, call, storevars>>

inspect_csp_calcs_step == fan.kind = "csp" /\ FanIn(inspect_csp_calcs(fan.n, fan.jobs))
mh_energies_step == fan.kind = "mh" /\ FanIn(mh_energies(fan.n, fan.jobs))
inspect_gen_calcs_step == fan.kind = "gen" /\ FanIn(inspect_gen_calcs(fan.n, fan.jobs))

\* ------------------------------------------------------------- specifications
\* no structure version stored, no call under way
InitVersions ==
    /\ db_structure_version = {}
    /\ version_call = [k \in Callers |-> NoVersionCall]

InitNoFilter ==
    /\ entries = <<>>
    /\ chemical_system = "None"
    /\ stable_entries = <<>>
    /\ refiltered_entries = <<>>
    /\ filter_pc = "none"

InitStages ==
    /\ db_structure = {}
    /\ run = [r \in Runs |-> NoRun]

InitNoMH == mh_outputs = <<>>

InitNoSurface ==
    /\ db_surface = {}
    /\ surface = NoSurface

InitNoTools ==
    /\ delete_call = NoDelete
    /\ gen = NoGen

InitStore ==
    /\ InitVersions /\ InitNoFilter /\ InitStages /\ InitNoMH /\ InitNoSurface
    /\ InitNoTools

InitWorkChains ==
    /\ pc = [p \in Procs |-> "absent"]
    /\ stage = [p \in Procs |-> 0]
    /\ formula = [p \in Procs |-> "None"]
    /\ chemical_systems = [p \in Procs |-> {}]
    /\ ctx_row = [p \in Procs |-> EmptyStepStatus]
    /\ exit_status = [p \in Procs |-> 0]
    /\ loaded = [p \in Procs |-> EmptyStepStatus]
    /\ launched = [p \in Procs |-> {}]
    /\ is_finished_ok = [p \in Procs |-> TRUE]
    /\ last_request = NoRequest
    /\ fan = NoFan
    /\ sub = [p \in Procs |-> NoSub]
    /\ call = [k \in Callers |-> NoCall]

InitProcs == InitWorkChains /\ InitStore

\* empty tables, no process
Init ==
    /\ db_frontend = {}
    /\ db_composition = [c \in Compositions |-> NoRow]
    /\ db_chemsys = [s \in ChemSystems |-> "absent"]
    /\ InitProcs

Intake ==
    \E user \in Users, entry_formula \in Formulas, retry \in BOOLEAN :
        add_from_frontend(user, entry_formula, retry, MaxProcs)

Workers == \E p \in Procs : MainWorkChain(p)

Next == Intake \/ Workers

Spec == Init /\ [][Next]_vars

\* the daemon runs every step of a submitted process that can be run
FairSpec == Spec /\ \A p \in Procs : WF_vars(MainWorkChain(p))

\* The tables and processes some time after an interrupted run. User 1 asked for
\* TiO2; its MainWorkChain wrote pd_ml Running and was killed while PhaseDiagramML
\* ran. User 1 also asked for ZnO, whose pd_ml stage failed. Since then
\* max_concurrent - 1 other users asked for TiO2: their MainWorkChains found pd_ml
\* Running and are in the wait loop. Terminated processes are not kept.
Waiting == 1..(max_concurrent - 1)
WaitingUsers == {NumUsersInterrupted + p : p \in Waiting}
InterruptedStepStatus == [EmptyStepStatus EXCEPT ![1] = "Running"]

InitInterrupted ==
    /\ db_frontend = {<<1, "TiO2">>, <<1, "ZnO">>} \cup {<<u, "TiO2">> : u \in WaitingUsers}
    /\ db_composition =
          [c \in Compositions |->
              IF c = "TiO2"
              THEN [status |-> "Running", step_status |-> InterruptedStepStatus,
                    stable_struct |-> "NULL"]
              ELSE [status |-> "Failed",
                    step_status |-> [EmptyStepStatus EXCEPT ![1] = "Failed"],
                    stable_struct |-> "NULL"]]
    /\ db_chemsys = [s \in ChemSystems |-> "NULL"]
    /\ pc = [p \in Procs |-> IF p \in Waiting THEN "wait_sleep" ELSE "absent"]
    /\ stage = [p \in Procs |-> IF p \in Waiting THEN 1 ELSE 0]
    /\ formula = [p \in Procs |-> IF p \in Waiting THEN "TiO2" ELSE "None"]
    /\ chemical_systems = [p \in Procs |-> {}]
    /\ ctx_row = [p \in Procs |-> IF p \in Waiting THEN InterruptedStepStatus
                                  ELSE EmptyStepStatus]
    /\ exit_status = [p \in Procs |-> 0]
    /\ loaded = ctx_row
    /\ launched = [p \in Procs |-> {}]
    /\ is_finished_ok = [p \in Procs |-> TRUE]
    /\ last_request = NoRequest
    /\ fan = NoFan
    /\ sub = [p \in Procs |-> NoSub]
    /\ call = [k \in Callers |-> NoCall]
    /\ InitStore

IntakeInterrupted ==
    \E user \in UsersInterrupted, entry_formula \in Formulas, retry \in BOOLEAN :
        add_from_frontend(user, entry_formula, retry, MaxProcsInterrupted)

\* the interrupted run with more process slots than max_concurrent: the intake
\* and the steps up to the first stage's guard, so that waiting chains end (their
\* PythonJob fails) and later entries find slots free or taken
IntakeCap ==
    \E user \in UsersInterrupted, entry_formula \in Formulas, retry \in BOOLEAN :
        add_from_frontend(user, entry_formula, retry, MaxProcsCap)

NextCap ==
    \/ IntakeCap
    \/ \E p \in Procs : setup(p) \/ wait_sleep(p) \/ check_pythonjob_sleep(p)

SpecCap == InitInterrupted /\ [][NextCap]_vars

\* the steps of MainWorkChain up to the guard of its first stage
WaitLoop(p) == setup(p) \/ wait_sleep(p) \/ check_pythonjob_sleep(p)

\* the daemon runs every step of a submitted process that can be run
FairSpecCap == SpecCap /\ \A p \in Procs : WF_vars(WaitLoop(p))

\* one fan-out of any size up to MaxJobs whose jobs have all ended, and its fan-in
InitFanIn ==
    /\ db_frontend = {}
    /\ db_composition = [c \in Compositions |-> NoRow]
    /\ db_chemsys = [s \in ChemSystems |-> "absent"]
    /\ pc = [p \in Procs |-> "absent"]
    /\ stage = [p \in Procs |-> 0]
    /\ formula = [p \in Procs |-> "None"]
    /\ chemical_systems = [p \in Procs |-> {}]
    /\ ctx_row = [p \in Procs |-> EmptyStepStatus]
    /\ exit_status = [p \in Procs |-> 0]
    /\ loaded = [p \in Procs |-> EmptyStepStatus]
    /\ launched = [p \in Procs |-> {}]
    /\ is_finished_ok = [p \in Procs |-> TRUE]
    /\ last_request = NoRequest
    /\ \E kind \in FanKinds, n \in 0..MaxJobs :
          \E jobs \in Tallies(kind, n) :
              fan = [kind |-> kind, n |-> n, jobs |-> jobs, done |-> FALSE, exit |-> 0]
    /\ sub = [p \in Procs |-> NoSub]
    /\ call = [k \in Callers |-> NoCall]
    /\ InitStore

NextFanIn == inspect_csp_calcs_step \/ mh_energies_step \/ inspect_gen_calcs_step

SpecFanIn == InitFanIn /\ [][NextFanIn]_vars

NextInterrupted == IntakeInterrupted \/ Workers

SpecInterrupted == InitInterrupted /\ [][NextInterrupted]_vars

\* every active process eventually takes its next step (the daemon runs it, and
\* every external job ends)
FairSpecInterrupted == SpecInterrupted /\ \A p \in Procs : WF_vars(MainWorkChain(p))

\* ------------------------------------------------------------- properties
\* ------------------------------------------------------------- phase_diagram.py
\* PhaseDiagramMLWorkChain of process p, submitted by the pd_ml step
pd_ml_running(p) == pc[p] = "inspect" /\ stage[p] = 1

SubGoto(p, at, code) ==
    sub' = [sub EXCEPT ![p] = [@ EXCEPT !.pc = at, !.exit = code]]

\* what a step of PhaseDiagramMLWorkChain and of its children leaves alone
PDFrame(p) ==
    /\ Seen(p)
    /\ UNCHANGED <<db_frontend, pc, stage, formula, chemical_systems, ctx_row,
                   exit_status, loaded, launched, is_finished_ok, fan, call, storevars>>

\* a selection that takes every row of the chain, generated or not
failed_chemsys_all(systems) ==
    {chemsys \in systems : db_chemsys[chemsys] # "absent"}

\* inspect_csp_cals, inspect_gen_calcs: the rows of the chain without gen_structures
failed_chemsys(systems) ==
    {chemsys \in systems : db_chemsys[chemsys] = "NULL"}

\* a cleanup that removes every row without gen_structures, whose ever it is
cleanup_every_system(systems) ==
    [chemsys \in ChemSystems |->
        IF db_chemsys[chemsys] = "NULL" THEN "absent" ELSE db_chemsys[chemsys]]

cleanup_failed_systems(systems) ==
    [chemsys \in ChemSystems |->
        IF chemsys \in systems /\ db_chemsys[chemsys] # "absent"
        THEN "absent" ELSE db_chemsys[chemsys]]

\* an outline that goes to wait_for_data without the gen sub-workchain
after_csp_no_gen(p) == "wait_for_data"

\* should_run_gen and the step the outline continues with
should_run_gen(p) == chemical_systems[p] # {}
after_csp(p) == IF should_run_gen(p) THEN "gen_calcs" ELSE "wait_for_data"

\* setup, should_run_csp (csp structures of the composition exist or not), csp_calcs
should_run_csp(p) ==
    /\ pd_ml_running(p)
    /\ sub[p].pc = "none"
    /\ \E run_csp \in BOOLEAN :
          SubGoto(p, IF run_csp THEN "inspect_csp_cals" ELSE after_csp(p), 0)
    /\ PDFrame(p)
    /\ UNCHANGED <<db_composition, db_chemsys>>

inspect_csp_cals(p) ==
    /\ pd_ml_running(p)
    /\ sub[p].pc = "inspect_csp_cals"
    /\ \E ok \in BOOLEAN :
          IF ~ok
          THEN /\ db_chemsys' = cleanup_failed_systems(failed_chemsys(chemical_systems[p]))
               /\ SubGoto(p, "finished", ERROR_CALCULATION_FAILED)
          ELSE /\ SubGoto(p, after_csp(p), 0)
               /\ UNCHANGED db_chemsys
    /\ PDFrame(p)
    /\ UNCHANGED db_composition

\* GenWorkChain.store_ml_energies: the chemical systems whose relaxations did not
\* fail get their structures and gen_structures = "Ready"; the chain finishes ok
\* when none failed
store_ml_energies(p) ==
    /\ pd_ml_running(p)
    /\ sub[p].pc = "gen_calcs"
    /\ \E relaxed \in SUBSET chemical_systems[p] :
          /\ db_chemsys' = [chemsys \in ChemSystems |->
                               IF chemsys \in relaxed /\ db_chemsys[chemsys] # "absent"
                               THEN "Ready" ELSE db_chemsys[chemsys]]
          /\ sub' = [sub EXCEPT ![p] = [@ EXCEPT !.pc = "inspect_gen_calcs",
                                                !.gen_ok = (relaxed = chemical_systems[p])]]
    /\ PDFrame(p)
    /\ UNCHANGED db_composition

\* PhaseDiagramMLWorkChain.inspect_gen_calcs
pd_inspect_gen_calcs(p) ==
    /\ pd_ml_running(p)
    /\ sub[p].pc = "inspect_gen_calcs"
    /\ IF ~sub[p].gen_ok
       THEN /\ db_chemsys' = cleanup_failed_systems(failed_chemsys(chemical_systems[p]))
            /\ SubGoto(p, "finished", ERROR_CALCULATION_FAILED)
       ELSE /\ SubGoto(p, "wait_for_data", 0)
            /\ UNCHANGED db_chemsys
    /\ PDFrame(p)
    /\ UNCHANGED db_composition

\* a poll that does not look at the rows
no_missing_unchecked(chemical_formula) == TRUE

\* one poll of is_data_available finds no subsystem of the formula missing
no_missing(chemical_formula) ==
    \A chemsys \in chemical_subsystems(chemical_formula) : db_chemsys[chemsys] = "Ready"

\* wait_for_data and the PythonJob is_data_available: it returns True from a poll
\* that finds nothing missing, False when a query fails or the timeout has passed
\* after a poll that found a subsystem missing
is_data_available(p) ==
    /\ pd_ml_running(p)
    /\ sub[p].pc = "wait_for_data"
    /\ \E moveon \in {no_missing(formula[p]), FALSE} :
          sub' = [sub EXCEPT ![p] = [@ EXCEPT !.pc = "check_pythonjob", !.moveon = moveon]]
    /\ PDFrame(p)
    /\ UNCHANGED <<db_composition, db_chemsys>>

check_pythonjob(p) ==
    /\ pd_ml_running(p)
    /\ sub[p].pc = "check_pythonjob"
    /\ IF ~sub[p].moveon
       THEN SubGoto(p, "finished", ERROR_CALCULATION_FAILED)
       ELSE SubGoto(p, "store_stable_structs", 0)
    /\ PDFrame(p)
    /\ UNCHANGED <<db_composition, db_chemsys>>

\* store_stable_structs: no entries, or the list of the stable structures' uuids,
\* which is written to the row whether it is empty or not
store_stable_structs(p) ==
    /\ pd_ml_running(p)
    /\ sub[p].pc = "store_stable_structs"
    /\ \E has_entries \in BOOLEAN, uuid_list \in {"empty", "nonempty"} :
          IF ~has_entries
          THEN /\ SubGoto(p, "finished", ERROR_CALCULATION_FAILED)
               /\ UNCHANGED db_composition
          ELSE /\ db_composition' = update_row(db_composition, formula[p],
                                        [stable_struct |-> uuid_list])
               /\ SubGoto(p, "finished", 0)
    /\ PDFrame(p)
    /\ UNCHANGED db_chemsys

PhaseDiagramMLWorkChain(p) ==
    \/ should_run_csp(p)
    \/ inspect_csp_cals(p)
    \/ store_ml_energies(p)
    \/ pd_inspect_gen_calcs(p)
    \/ is_data_available(p)
    \/ check_pythonjob(p)
    \/ store_stable_structs(p)

\* inspect_pd_ml once PhaseDiagramMLWorkChain has terminated
inspect_pd_ml(p) ==
    /\ stage[p] = 1
    /\ sub[p].pc = "finished"
    /\ inspect_stage(p, {sub[p].exit = 0})

\* pd_ml: the step of MainWorkChain that starts the first stage
pd_ml(p) == stage[p] = 1 /\ run_stage(p)

\* MainWorkChain followed to the end of its pd_ml stage, PhaseDiagramMLWorkChain
\* step by step
NextPD ==
    \/ Intake
    \/ \E p \in Procs :
          \/ setup(p)
          \/ wait_sleep(p)
          \/ check_pythonjob_sleep(p)
          \/ pd_ml(p)
          \/ PhaseDiagramMLWorkChain(p)
          \/ inspect_pd_ml(p)

SpecPD == Init /\ [][NextPD]_vars

\* the daemon runs every step of a work chain that can run; the PythonJob
\* is_data_available returns after its timeout at the latest
FairSpecPD == SpecPD /\ \A p \in Procs : WF_vars(PhaseDiagramMLWorkChain(p))

\* ------------------------------------------------------------- concurrent callers
\* add_from_frontend for one entry, called by several callers at once: each
\* query and each add_row is a transaction of its own (db/utils.py get_session)
RECURSIVE new_in_order(_)
new_in_order(systems) ==
    IF systems = <<>> THEN <<>>
    ELSE IF db_chemsys[Head(systems)] = "absent"
         THEN <<Head(systems)>> \o new_in_order(Tail(systems))
         ELSE new_in_order(Tail(systems))

Range(seq) == {seq[i] : i \in DOMAIN seq}

CallFrame ==
    /\ last_request' = NoRequest
    /\ UNCHANGED <<stage, ctx_row, exit_status, loaded, launched, is_finished_ok, fan, sub,
                   storevars>>

\* the entry up to get_chemical_systems(chemical_formula, new=True)
get_chemical_systems(k) ==
    /\ call[k].pc = "idle"
    /\ \E user \in Users, entry_formula \in Formulas, retry \in BOOLEAN :
          LET chemical_formula == reduced_formula(entry_formula)
              user_already_exists == <<user, chemical_formula>> \in db_frontend
              existing_composition == db_composition[chemical_formula]
              ignored == is_ignored(user_already_exists, retry, existing_composition.status)
              new_chemsys == new_in_order(subsystems(chemical_formula))
          IN  /\ db_frontend' = db_frontend \cup {<<user, chemical_formula>>}
              /\ db_composition' =
                    IF existing_composition = NoRow
                    THEN [db_composition EXCEPT ![chemical_formula] = NewCompositionRow]
                    ELSE db_composition
              /\ call' = [call EXCEPT ![k] =
                            IF ignored THEN NoCall
                            ELSE [pc |-> "add_row", formula |-> chemical_formula,
                                  new_chemsys |-> new_chemsys, todo |-> new_chemsys]]
    /\ CallFrame
    /\ UNCHANGED <<db_chemsys, pc, formula, chemical_systems>>

\* add_row(DBChemsys, {"chemsys": chemsys}): the unique constraint on chemsys makes
\* the insert of a row that is there raise, and the call ends with the exception
add_row(k) ==
    /\ call[k].pc = "add_row"
    /\ call[k].todo # <<>>
    /\ LET chemsys == Head(call[k].todo)
       IN  IF db_chemsys[chemsys] # "absent"
           THEN /\ call' = [call EXCEPT ![k].pc = "raised"]
                /\ UNCHANGED db_chemsys
           ELSE /\ db_chemsys' = [db_chemsys EXCEPT ![chemsys] = "NULL"]
                /\ call' = [call EXCEPT ![k].todo = Tail(@)]
    /\ CallFrame
    /\ UNCHANGED <<db_frontend, db_composition, pc, formula, chemical_systems>>

\* submit_mainworkchain(chemical_formula, new_chemsys, ...), and the call returns
submit_mainworkchain(k) ==
    /\ call[k].pc = "add_row"
    /\ call[k].todo = <<>>
    /\ NumSubmitted < MaxProcs
    /\ LET p == NumSubmitted + 1
       IN  IF can_submit
           THEN /\ pc' = [pc EXCEPT ![p] = "setup"]
                /\ formula' = [formula EXCEPT ![p] = call[k].formula]
                /\ chemical_systems' =
                      [chemical_systems EXCEPT ![p] = Range(call[k].new_chemsys)]
           ELSE UNCHANGED <<pc, formula, chemical_systems>>
    /\ call' = [call EXCEPT ![k] = NoCall]
    /\ CallFrame
    /\ UNCHANGED dbvars

NextCallers ==
    \E k \in Callers : get_chemical_systems(k) \/ add_row(k) \/ submit_mainworkchain(k)

SpecCallers == Init /\ [][NextCallers]_vars

\* ------------------------------------------------------------- db/utils.py
\* add_version_to_existing_structure, called by several work chains at once: the
\* query and the commit are two statements of one session
VersionRows(method) ==
    {row \in db_structure_version :
        row.structure_uuid = StructureUuid /\ row.method = method}

\* what store_scan_result and pbe_result pass: the structure and energy of a result
AddAttributes == {[structure |-> v, energy |-> v] : v \in Results}

\* an override that leaves the row as it is
override_nothing(row, add_attributes) == row

\* for key, value in add_attributes.items(): setattr(existing_version, key, value)
override(row, add_attributes) ==
    [col \in DOMAIN row |->
        IF col \in DOMAIN add_attributes THEN add_attributes[col] ELSE row[col]]

\* DBStructureVersion(structure_uuid=existing_uuid, method=method, **add_attributes)
new_version(id, method, add_attributes) ==
    [id |-> id, structure_uuid |-> StructureUuid, method |-> method,
     source |-> "NULL",
     structure |-> add_attributes.structure, energy |-> add_attributes.energy]

VersionFrame ==
    /\ last_request' = NoRequest
    /\ UNCHANGED <<dbvars, procvars, fan, call, filtervars, stagevars, mhvars, surfacevars,
                   toolvars>>

\* session.query(DBStructureVersion).filter_by(...).first(): no row (0) or the id
\* of one of the rows there are
existing_version(k) ==
    /\ version_call[k].pc = "idle"
    /\ \E method \in Methods, on_conflict \in OnConflict, add_attributes \in AddAttributes :
          \E id \in IF VersionRows(method) = {} THEN {0}
                    ELSE {row.id : row \in VersionRows(method)} :
              version_call' = [version_call EXCEPT ![k] =
                  [pc |-> "queried", method |-> method, on_conflict |-> on_conflict,
                   add_attributes |-> add_attributes, existing_version |-> id,
                   returned |-> "None"]]
    /\ UNCHANGED db_structure_version
    /\ VersionFrame

\* the rest of the call: the conflict policy, or the new row, and the commit
add_version_to_existing_structure(k) ==
    /\ version_call[k].pc = "queried"
    /\ LET c == version_call[k]
           Returns(value) ==
               version_call' = [version_call EXCEPT ![k] =
                                   [NoVersionCall EXCEPT !.returned = value]]
       IN  IF c.existing_version # 0
           THEN CASE c.on_conflict = "error" ->
                       Returns("False") /\ UNCHANGED db_structure_version
                  [] c.on_conflict = "ignore" ->
                       Returns("True") /\ UNCHANGED db_structure_version
                  [] c.on_conflict = "override" ->
                       /\ db_structure_version' =
                             {IF row.id = c.existing_version
                              THEN override(row, c.add_attributes) ELSE row :
                                 row \in db_structure_version}
                       /\ Returns("True")
           ELSE /\ Cardinality(db_structure_version) < MaxVersionRows
                /\ db_structure_version' = db_structure_version \cup
                      {new_version(Cardinality(db_structure_version) + 1,
                                   c.method, c.add_attributes)}
                /\ Returns("True")
    /\ VersionFrame

NextVersions ==
    \E k \in Callers : existing_version(k) \/ add_version_to_existing_structure(k)

SpecVersions == Init /\ [][NextVersions]_vars

\* the inspect step of process p: it leaves "inspect" other than by being killed
InspectStep(p) == pc[p] = "inspect" /\ pc'[p] \notin {"inspect", "killed"}
\* the step of process p that submits the sub-workchain of a stage
SubmitStep(p) == launched'[p] # launched[p]

\* C1: in every run, a stage's sub-workchain has been submitted only with every
\* earlier stage Done for that run; after a stage of the run ended Failed (or is
\* anything but Done) no later stage has been submitted.
C1_StagesInOrder ==
    \A p \in Procs : \A s \in launched[p] : \A j \in 1..(s - 1) : ctx_row[p][j] = "Done"

\* a run that submitted pd_ml and then pd_verification, which failed and ended it
C1_Witness ==
    \E p \in Procs : /\ launched[p] = {1, 2}
                      /\ ctx_row[p][2] = "Failed"
                      /\ pc[p] = "finished"

\* C3: a run never submits a stage that was Done in the row it loaded, and the
\* first stage it submits is the first stage that was not Done.
C3_DoneStagesSkipped ==
    \A p \in Procs :
        /\ \A s \in Stages : loaded[p][s] = "Done" => s \notin launched[p]
        /\ \A s \in launched[p] :
              (\A j \in launched[p] : s <= j) =>
                  \A j \in 1..(s - 1) : loaded[p][j] = "Done"

\* a retry run that loaded pd_ml Done and submitted pd_verification
C3_Witness ==
    \E p \in Procs : loaded[p][1] = "Done" /\ launched[p] # {} /\ 2 \in launched[p]

\* C4: when an inspect step finds its sub-workchain not finished ok, it leaves the
\* stage Failed and the status Failed in DBComposition and the run finished with
\* exit status 300; a terminated run takes no further step and submits nothing.
C4_FailureHalts ==
    [][\A p \in Procs :
          /\ (InspectStep(p) /\ ~is_finished_ok'[p]) =>
                /\ db_composition'[formula[p]].step_status[stage[p]] = "Failed"
                /\ db_composition'[formula[p]].status = "Failed"
                /\ pc'[p] = "finished"
                /\ exit_status'[p] = ERROR_CALCULATION_FAILED
                /\ launched'[p] = launched[p]
          /\ pc[p] \in Terminated =>
                pc'[p] = pc[p] /\ launched'[p] = launched[p]
                               /\ exit_status'[p] = exit_status[p]]_vars

\* a run ended by a failed stage, with the failure in the table
C4_Witness ==
    \E p \in Procs : /\ pc[p] = "finished" /\ exit_status[p] = ERROR_CALCULATION_FAILED
                      /\ ~is_finished_ok[p]
                      /\ stage[p] \in launched[p]
                      /\ db_composition[formula[p]].status = "Failed"
                      /\ db_composition[formula[p]].step_status[stage[p]] = "Failed"

\* C10: the step that submits a stage's sub-workchain leaves the stage Running
\* and the status Running in DBComposition, and the inspect step leaves the
\* stage's Done or Failed in DBComposition when it moves to the next guard.
C10_PersistedBeforeProceeding ==
    [][\A p \in Procs :
          /\ SubmitStep(p) =>
                /\ db_composition'[formula[p]].step_status[stage[p]] = "Running"
                /\ db_composition'[formula[p]].status = "Running"
          /\ InspectStep(p) =>
                db_composition'[formula[p]].step_status[stage[p]] =
                    (IF is_finished_ok'[p] THEN "Done" ELSE "Failed")]_vars

\* a run at the guard of pd_verification with pd_ml Done in the table
C10_Witness ==
    \E p \in Procs : /\ pc[p] = "run" /\ stage[p] = 2 /\ launched[p] = {1}
                      /\ db_composition[formula[p]].step_status[1] = "Done"

\* C2: a stage that is Done in DBComposition stays Done in every later state.
C2_DoneIsFinal ==
    [][\A c \in Compositions : \A s \in Stages :
          db_composition[c].step_status[s] = "Done" =>
              db_composition'[c].step_status[s] = "Done"]_vars

\* a fan-in passed: its step returned no exit code
FanPassed == fan.done /\ fan.exit = 0
AtMostHalfFailed == 2 * failed_jobs(fan.jobs) <= fan.n

Repeat(r) == r.seen /\ (~r.retry \/ r.status = "Running")

C8_WaitLoopLeft ==
    \A p \in Procs :
        (pc[p] = "wait_sleep") ~> (pc[p] \notin {"wait_sleep", "check_pythonjob_sleep"})

\* C9: a retry entry from a known requester for a composition left Running by a
\* MainWorkChain that is no longer active submits a MainWorkChain.
C9_RetryRestartsInterrupted ==
    (/\ last_request.seen /\ last_request.retry
     /\ last_request.status = "Running"
     /\ last_request.active_same = 0) => last_request.submitted

\* the step of process p that writes its cached row to DBComposition
WriteStep(p) == pc[p] \in {"run", "inspect"} /\ ctx_row'[p] # ctx_row[p]

\* C11: a step_status write of a MainWorkChain changes the entry of its own stage
\* only: what the table holds for every other stage, as committed by any other
\* writer since this run loaded its row, is still there after the write.
C11_NoLostUpdate ==
    [][\A p \in Procs :
          WriteStep(p) =>
              \A s \in Stages \ {stage[p]} :
                  db_composition'[formula[p]].step_status[s] =
                      db_composition[formula[p]].step_status[s]]_vars

\* an external job of the pipeline of composition c failed, or its process was
\* killed: a run of c ended with a failure exit code before the last stage
JobFailed(c) ==
    \E p \in Procs :
        /\ formula[p] = c
        /\ \/ pc[p] = "killed"
           \/ pc[p] = "finished" /\ exit_status[p] # 0 /\ stage[p] < 5

\* C12: a composition whose row was created with its MainWorkChain submitted
\* eventually has status Done with all five stages Done, unless an external job
\* of one of its stages fails.
C12_EventuallyDone ==
    \A c \in Compositions :
        (db_composition[c].status = "Created") ~>
            (\/ JobFailed(c)
             \/ /\ db_composition[c].status = "Done"
                /\ \A s \in Stages : db_composition[c].step_status[s] = "Done")

\* C13: whenever the status of a composition is Done, and whenever its pd_ml stage
\* is Done, the list of stable structures stored in its row is non-empty.
C13_DoneHasStableStructs ==
    \A c \in Compositions :
        (db_composition[c].status = "Done" \/ db_composition[c].step_status[1] = "Done")
            => db_composition[c].stable_struct = "nonempty"

\* every subsystem of composition c has a DBChemsys row with gen_structures Ready
AllReady(c) == \A chemsys \in chemical_subsystems(c) : db_chemsys[chemsys] = "Ready"

\* the step of PhaseDiagramMLWorkChain of p that leaves the position at
SubStep(p, at) == sub[p].pc = at /\ sub'[p].pc # at

\* C14: PhaseDiagramMLWorkChain comes to store_stable_structs only after a poll of
\* is_data_available found every subsystem of the formula Ready, and those are
\* Ready then; when is_data_available returns False the workchain ends with
\* exit code 300 and inspect_pd_ml records pd_ml Failed and status Failed.
C14_StoreOnlyWithData ==
    [][\A p \in Procs :
          /\ (SubStep(p, "wait_for_data") /\ sub'[p].moveon) => AllReady(formula[p])
          /\ sub'[p].pc = "store_stable_structs" =>
                sub'[p].moveon /\ AllReady(formula[p])'
          /\ (SubStep(p, "check_pythonjob") /\ ~sub[p].moveon) =>
                sub'[p].pc = "finished" /\ sub'[p].exit = ERROR_CALCULATION_FAILED
          /\ (InspectStep(p) /\ stage[p] = 1 /\ sub[p].exit # 0) =>
                /\ db_composition'[formula[p]].step_status[1] = "Failed"
                /\ db_composition'[formula[p]].status = "Failed"
                /\ exit_status'[p] = ERROR_CALCULATION_FAILED]_vars

\* a chain whose own subsystems were all generated, whose is_data_available
\* returned False for a subsystem of another chain, and whose pd_ml is Failed
C14_Witness ==
    \E p \in Procs :
        /\ pc[p] = "finished"
        /\ sub[p] = [pc |-> "finished", exit |-> ERROR_CALCULATION_FAILED,
                     gen_ok |-> TRUE, moveon |-> FALSE]
        /\ chemical_systems[p] # {}
        /\ \A chemsys \in chemical_systems[p] : db_chemsys[chemsys] = "Ready"
        /\ db_composition[formula[p]].step_status[1] = "Failed"

\* C15: a DBChemsys row that is Ready stays Ready: no intake, no step of
\* GenWorkChain and no cleanup of a failed PhaseDiagramMLWorkChain resets or
\* deletes it.
C15_ReadyIsKept ==
    [][\A chemsys \in ChemSystems :
          db_chemsys[chemsys] = "Ready" => db_chemsys'[chemsys] = "Ready"]_vars

\* GenWorkChain of a chain failed for part of its chemical systems and the cleanup
\* of inspect_gen_calcs has run: the failed rows are deleted, a Ready one is there
C15_Witness ==
    \E p \in Procs :
        /\ sub[p].pc = "finished" /\ ~sub[p].gen_ok
        /\ \E chemsys \in chemical_systems[p] : db_chemsys[chemsys] = "Ready"
        /\ \E chemsys \in chemical_systems[p] : db_chemsys[chemsys] = "absent"

\* C16: every DBChemsys row that is not Ready belongs to the chemical systems of an
\* active MainWorkChain: a pipeline that ended in failure, or that does not
\* generate the rows created for it, leaves each of them Ready or deleted.
C16_NoOrphanRows ==
    \A chemsys \in ChemSystems :
        db_chemsys[chemsys] = "NULL" =>
            \E q \in Procs : IsActive(q) /\ chemsys \in chemical_systems[q]

\* C17: when two callers of add_from_frontend ask at the same time for two
\* compositions that share a chemical subsystem and both find it missing, the
\* subsystem gets its one row and neither call fails: no call raises on a row that
\* a concurrent call for another composition has inserted.
C17_NoCallRaises ==
    \A k, j \in Callers :
        ~ /\ call[k].pc = "raised"
          /\ call[j].pc = "add_row"
          /\ call[j].formula # call[k].formula
          /\ Head(call[k].todo) \in Range(call[j].new_chemsys) \ Range(call[j].todo)

\* the step in which the stage of process p fails: PhaseDiagramMLWorkChain or
\* MainWorkChain returns its failure exit code
FailureStep(p) ==
    \/ sub[p].exit = 0 /\ sub'[p].exit # 0
    \/ exit_status[p] = 0 /\ exit_status'[p] # 0

\* C18: the step in which a stage of the pipeline of composition A fails changes
\* no DBComposition row but A's and no DBChemsys row but rows that were assigned
\* to A's chain and are not Ready; every other composition's row and every Ready
\* row are as before.
C18_FailureIsLocal ==
    [][\A p \in Procs :
          FailureStep(p) =>
              /\ \A c \in Compositions \ {formula[p]} :
                    db_composition'[c] = db_composition[c]
              /\ \A chemsys \in ChemSystems :
                    db_chemsys'[chemsys] # db_chemsys[chemsys] =>
                        /\ chemsys \in chemical_systems[p]
                        /\ db_chemsys[chemsys] = "NULL"]_vars

\* the chain of one composition failed and its rows were removed while the chain
\* of another composition is running with rows of its own not yet Ready
C18_Witness ==
    \E p, q \in Procs :
        /\ sub[p].pc = "finished" /\ sub[p].exit = ERROR_CALCULATION_FAILED
        /\ \E chemsys \in chemical_systems[p] : db_chemsys[chemsys] = "absent"
        /\ formula[q] # formula[p] /\ IsActive(q)
        /\ db_composition[formula[q]].status = "Running"
        /\ \E chemsys \in chemical_systems[q] : db_chemsys[chemsys] = "NULL"

\* C19: the step in which a MainWorkChain ends with a failure exit code leaves
\* the row of its composition with status Failed and the stage it failed in
\* Failed.
C19_FailureIsPersisted ==
    [][\A p \in Procs :
          (exit_status[p] = 0 /\ exit_status'[p] # 0) =>
              /\ db_composition'[formula[p]].status = "Failed"
              /\ db_composition'[formula[p]].step_status[stage[p]] = "Failed"]_vars

\* C20: at no time are more than max_concurrent MainWorkChain processes active,
\* whatever entries the intake has processed.
C20_AtMostMaxConcurrent == Cardinality(ActiveProcs) <= max_concurrent

\* max_concurrent chains are active and the entry just processed, which asked for
\* a chain, got none
C20_Witness ==
    /\ Cardinality(ActiveProcs) = max_concurrent
    /\ last_request.active = max_concurrent
    /\ ~last_request.submitted
    /\ ~is_ignored(last_request.seen, last_request.retry, last_request.status)

\* the entry just processed asked for a chain and the controller had no free slot
Dropped ==
    /\ last_request # NoRequest
    /\ ~last_request.submitted
    /\ ~is_ignored(last_request.seen, last_request.retry, last_request.status)
    /\ last_request.active >= max_concurrent

\* C21: after an entry that asked for a chain while max_concurrent chains were
\* active, a further MainWorkChain is eventually submitted, unless no slot ever
\* becomes free again.
C21_DroppedIsStarted ==
    \A n \in 0..MaxProcsCap :
        (Dropped /\ NumSubmitted = n) ~>
            (\/ NumSubmitted > n
             \/ [](Cardinality(ActiveProcs) >= max_concurrent))

\* C22: whatever calls of add_version_to_existing_structure have run, one after
\* the other or at the same time, a structure has at most one version row of a
\* method.
C22_OneVersionPerMethod ==
    \A method \in Methods : Cardinality(VersionRows(method)) <= 1

\* ---------------------------------------------------------------------------
\* workchains/utils.py: the filter of unique low-energy structures. Energies are
\* per atom, in units of 0.01 eV; a structure is given by its class under
\* matcher.fit.
\* ---------------------------------------------------------------------------
_EHULL == 5

FilterSystems == {"Zn", "O-Zn"}
Energies == {-10, -8, -3, 2}
Prototypes == {"p", "q"}

\* the structures of the entries: "p" is a centred cell of two sites of prototype p,
\* "pd" the same cell with a site displaced by more than symprec and less than
\* the matcher's tolerances, "q" a cell of one site of prototype q; "pp" is the
\* primitive cell of "p"
Structures == {"p", "pd", "q"}
prototype(s) == IF s = "q" THEN "q" ELSE "p"
num_sites(s) == IF s \in {"p", "pd"} THEN 2 ELSE 1

\* SpacegroupAnalyzer(structure, symprec=0.1, angle_tolerance=5).find_primitive()
find_primitive(s) == IF s = "p" THEN "pp" ELSE s

\* Composition(...).chemical_system
chemical_system_of(composition) ==
    IF composition = "ZnO" THEN "O-Zn" ELSE composition

\* the entries a job returns for a chemical system
Candidates(system) ==
    [composition : {c \in {"Zn", "ZnO"} : chemical_system_of(c) = system},
     energy : Energies, structure : Structures]

SeqsUpTo(S, n) == UNION {[1..k -> S] : k \in 0..n}

\* the reference entries of the elements, in the order of the file
ElementEntries ==
    <<[composition |-> "O", energy |-> 0, structure |-> "O2"],
      [composition |-> "Zn", energy |-> 0, structure |-> "hcp"]>>

get_element_entries(chemsys_list) ==
    SelectSeq(ElementEntries, LAMBDA entry : entry.composition \in chemsys_list)

\* if "-" in chemical_system: entries.extend(get_element_entries(elements, method))
entries_extend(list, system) ==
    IF system = "O-Zn" THEN list \o get_element_entries({"O", "Zn"}) ELSE list

MinOf(S) == CHOOSE x \in S : \A y \in S : x <= y

\* the lowest energy per atom the entries of the diagram have at a composition
lowest(pd, composition) ==
    MinOf({pd[i].energy : i \in {j \in DOMAIN pd : pd[j].composition = composition}})

\* the energy of the convex hull at a composition: for an element its lowest
\* entry, for ZnO the lower of its lowest entry and the line between the elements
hull_energy(pd, composition) ==
    IF composition = "ZnO"
    THEN LET line == (lowest(pd, "O") + lowest(pd, "Zn")) \div 2
         IN  IF lowest(pd, composition) < line THEN lowest(pd, composition) ELSE line
    ELSE lowest(pd, composition)

\* a filter that counts an entry on the hull as outside the window
get_e_above_hull_off_hull(pd, entry) ==
    IF entry.energy = hull_energy(pd, entry.composition)
    THEN _EHULL
    ELSE entry.energy - hull_energy(pd, entry.composition)

\* a filter whose window is wider by one unit: it takes the entry at the threshold
get_e_above_hull_less_one(pd, entry) ==
    entry.energy - hull_energy(pd, entry.composition) - 1

get_e_above_hull(pd, entry) == entry.energy - hull_energy(pd, entry.composition)

\* matcher.fit: the same prototype within the tolerances; with primitive_cell=False
\* and attempt_supercell=False cells of different numbers of sites do not match
matcher_fit(s1, s2) == prototype(s1) = prototype(s2) /\ num_sites(s1) = num_sites(s2)

\* the loop of get_unique_low_energy over pd.entries, from entry i on
RECURSIVE get_unique_low_energy_from(_, _, _, _)
get_unique_low_energy_from(pd, i, system, stable) ==
    IF i > Len(pd) THEN stable
    ELSE LET entry == pd[i]
             skipped ==
                 \/ chemical_system_of(entry.composition) # system
                 \/ get_e_above_hull(pd, entry) >= _EHULL
                 \/ \E j \in DOMAIN stable :
                        matcher_fit(find_primitive(entry.structure),
                                    find_primitive(stable[j].structure))
         IN  get_unique_low_energy_from(pd, i + 1, system,
                 IF skipped THEN stable ELSE Append(stable, entry))

get_unique_low_energy(list, system) == get_unique_low_energy_from(list, 1, system, <<>>)

FilterFrame ==
    /\ last_request' = NoRequest
    /\ UNCHANGED <<dbvars, procvars, fan, sub, call, versionvars, stagevars, mhvars, surfacevars,
                   toolvars>>

\* unique_low_energy_comp / unique_low_energy_chemsys called with the caller's list;
\* PhaseDiagram raises without entries
unique_low_energy_comp ==
    /\ filter_pc = "entries"
    /\ entries' = entries_extend(entries, chemical_system)
    /\ IF entries' = <<>>
       THEN /\ filter_pc' = "raised"
            /\ UNCHANGED stable_entries
       ELSE /\ filter_pc' = "filtered"
            /\ stable_entries' = get_unique_low_energy(entries', chemical_system)
    /\ UNCHANGED <<chemical_system, refiltered_entries>>
    /\ FilterFrame

\* the filter called again with a new list that holds what it returned, as
\* final_step does with low_energy_entries_csp + low_energy_entries_mh
final_step ==
    /\ filter_pc = "filtered"
    /\ LET all_entries == entries_extend(stable_entries, chemical_system)
       IN  IF all_entries = <<>>
           THEN /\ filter_pc' = "raised"
                /\ UNCHANGED refiltered_entries
           ELSE /\ filter_pc' = "refiltered"
                /\ refiltered_entries' = get_unique_low_energy(all_entries, chemical_system)
    /\ UNCHANGED <<entries, chemical_system, stable_entries>>
    /\ FilterFrame

InitFilter ==
    /\ db_frontend = {}
    /\ db_composition = [c \in Compositions |-> NoRow]
    /\ db_chemsys = [s \in ChemSystems |-> "absent"]
    /\ InitWorkChains
    /\ InitVersions
    /\ InitStages
    /\ InitNoMH
    /\ InitNoSurface
    /\ InitNoTools
    /\ chemical_system \in FilterSystems
    /\ entries \in SeqsUpTo(Candidates(chemical_system), MaxEntries)
    /\ stable_entries = <<>>
    /\ refiltered_entries = <<>>
    /\ filter_pc = "entries"

NextFilter == unique_low_energy_comp \/ final_step

SpecFilter == InitFilter /\ [][NextFilter]_vars

\* ---------------------------------------------------------------------------
\* The stages that write structures, run more than once for one composition:
\* the storing of the CSP structures (phase_diagram.py, csp.py, db/utils.py) and
\* PDVerificationWorkChain (pd_verification.py).
\* ---------------------------------------------------------------------------
StageFormula == "ZnO"
ML_model == "MACE"

\* query_structure({"composition": ...}, source=...): the versions of that source
\* whose structure has the composition
query_structure_by_source(composition, source) ==
    {row \in db_structure_version :
        /\ row.source = source
        /\ \E structure \in db_structure :
              structure.uuid = row.structure_uuid /\ structure.composition = composition}

\* query_structure({"uuid": uuid_str}, method=method)
query_structure_by_uuid(uuid_str, method) ==
    {row \in db_structure_version : row.structure_uuid = uuid_str /\ row.method = method}

StageFrame ==
    /\ last_request' = NoRequest
    /\ UNCHANGED <<dbvars, procvars, fan, sub, call, version_call, filtervars, mhvars, surfacevars,
                   toolvars>>

RunGoto(r, step) == run' = [run EXCEPT ![r].pc = step]

\* a PhaseDiagramMLWorkChain for the composition starts
submit_run(r) ==
    /\ run[r].pc = "absent"
    /\ RunGoto(r, "should_run_csp")
    /\ UNCHANGED <<db_structure, db_structure_version>>
    /\ StageFrame

\* should_run_csp: no CSP when the store has structures of source csp
should_run_csp_query(r) ==
    /\ run[r].pc = "should_run_csp"
    /\ IF query_structure_by_source(StageFormula, "csp") # {}
       THEN RunGoto(r, "setup")
       ELSE RunGoto(r, "csp_final_step")
    /\ UNCHANGED <<db_structure, db_structure_version>>
    /\ StageFrame

\* add_structures(source, method, pairs) for one pair: a DBStructure row with a
\* new uuid and its DBStructureVersion row
add_structures(uuid, source, method, result) ==
    /\ db_structure' = db_structure \cup {[uuid |-> uuid, composition |-> StageFormula]}
    /\ db_structure_version' = db_structure_version \cup
          {[id |-> Cardinality(db_structure_version) + 1, structure_uuid |-> uuid,
            method |-> method, source |-> source,
            structure |-> result, energy |-> result]}

\* CSPWorkChain.final_step: the low-energy structure of the composition is stored
csp_final_step(r) ==
    /\ run[r].pc = "csp_final_step"
    /\ Cardinality(db_structure) < MaxStructures
    /\ \E i \in DOMAIN StructureUuids :
          /\ \A structure \in db_structure : structure.uuid # StructureUuids[i]
          /\ add_structures(StructureUuids[i], "csp", ML_model, "v1")
    /\ RunGoto(r, "setup")
    /\ StageFrame

\* PDVerificationWorkChain.setup: get_struct_uuid, the structures of the
\* composition that have a version of the ML model
pd_verification_setup(r) ==
    /\ run[r].pc = "setup"
    /\ run' = [run EXCEPT ![r].pc = "run_scan",
                          ![r].struct_uuid =
                              {structure.uuid : structure \in
                                  {st \in db_structure :
                                      query_structure_by_uuid(st.uuid, ML_model) # {}}}]
    /\ UNCHANGED <<db_structure, db_structure_version>>
    /\ StageFrame

\* run_scan: a VASP job is submitted for every structure of ctx.struct_uuid
run_scan(r) ==
    /\ run[r].pc = "run_scan"
    /\ run' = [run EXCEPT ![r].pc = "store_scan_result",
                          ![r].scan_jobs = run[r].struct_uuid]
    /\ UNCHANGED <<db_structure, db_structure_version>>
    /\ StageFrame

\* the calls add_version_to_existing_structure(uuid, "r2SCAN", {...}) of
\* store_scan_result, one after the other, with on_conflict "error"
RECURSIVE add_versions(_, _, _, _)
add_versions(rows, todo, method, add_attributes) ==
    IF todo = <<>> THEN rows
    ELSE add_versions(
             IF \E row \in rows : row.structure_uuid = Head(todo) /\ row.method = method
             THEN rows
             ELSE rows \cup {[new_version(Cardinality(rows) + 1, method, add_attributes)
                                 EXCEPT !.structure_uuid = Head(todo)]},
             Tail(todo), method, add_attributes)

\* store_scan_result: the jobs that finished ok give scan_entries, and those that
\* pass the filter get an r2SCAN version; failed jobs are reported in a warning and
\* the step returns no exit code (the filter of a list without entries returns
\* the empty list for a composition of several elements)
store_scan_result(r) ==
    /\ run[r].pc = "store_scan_result"
    /\ \E scan_entries \in SUBSET run[r].scan_jobs :
          \E low_energy_entries \in SUBSET scan_entries :
              /\ db_structure_version' =
                    add_versions(db_structure_version,
                                 SelectSeq(StructureUuids,
                                           LAMBDA u : u \in low_energy_entries),
                                 "r2SCAN", [structure |-> "v2", energy |-> "v2"])
              /\ run' = [run EXCEPT ![r].pc = "inspect_pd_verification",
                                    ![r].scan_entries = scan_entries,
                                    ![r].exit_status = 0]
    /\ UNCHANGED db_structure
    /\ StageFrame

\* MainWorkChain.inspect_pd_verification: Failed unless the work chain finished ok
inspect_pd_verification(r) ==
    /\ run[r].pc = "inspect_pd_verification"
    /\ run' = [run EXCEPT ![r].pc = "finished",
                          ![r].pd_verification =
                              IF run[r].exit_status # 0 THEN "Failed" ELSE "Done"]
    /\ UNCHANGED <<db_structure, db_structure_version>>
    /\ StageFrame

NextStages ==
    \E r \in Runs :
        \/ submit_run(r)
        \/ should_run_csp_query(r)
        \/ csp_final_step(r)
        \/ pd_verification_setup(r)
        \/ run_scan(r)
        \/ store_scan_result(r)
        \/ inspect_pd_verification(r)

SpecStages == Init /\ [][NextStages]_vars

\* ---------------------------------------------------------------------------
\* CSPWorkChain.mh_energies with the entries of its minima-hopping jobs
\* ---------------------------------------------------------------------------
\* what a job leaves: not finished ok (or an output that cannot be read), or a
\* list of entries
JobOutputs ==
    [ok : {FALSE}, entries : {<<>>}]
        \cup [ok : {TRUE}, entries : SeqsUpTo(Candidates("O-Zn"), MaxJobEntries)]

\* all_entries and new_entries after the loop over the first i jobs
RECURSIVE all_entries_after(_, _)
all_entries_after(outputs, i) ==
    IF i = 0 THEN <<>>
    ELSE IF outputs[i].ok THEN all_entries_after(outputs, i - 1) \o outputs[i].entries
    ELSE all_entries_after(outputs, i - 1)

RECURSIVE new_entries_after(_, _)
new_entries_after(outputs, i) ==
    IF i = 0 THEN <<>>
    ELSE IF outputs[i].ok THEN outputs[i].entries
    ELSE new_entries_after(outputs, i - 1)

\* the jobs of mh_outputs counted as the fan-in counts them
mh_tally(outputs) ==
    [failed |-> Cardinality({i \in DOMAIN outputs : ~outputs[i].ok}),
     no_output |-> 0,
     empty |-> Cardinality({i \in DOMAIN outputs :
                               outputs[i].ok /\ outputs[i].entries = <<>>}),
     ok |-> Cardinality({i \in DOMAIN outputs :
                            outputs[i].ok /\ outputs[i].entries # <<>>})]

\* mh_energies: the failure test, then unique_low_energy_comp(chemical_formula,
\* new_entries, "GGA")
mh_energies_filter ==
    /\ filter_pc = "mh_energies"
    /\ IF mh_energies(Len(mh_outputs), mh_tally(mh_outputs)) # 0
       THEN /\ filter_pc' = "failed"
            /\ UNCHANGED <<entries, stable_entries>>
       ELSE /\ filter_pc' = "low_energy_entries_mh"
            /\ entries' = entries_extend(new_entries_after(mh_outputs, Len(mh_outputs)),
                                         chemical_system)
            /\ stable_entries' = get_unique_low_energy(entries', chemical_system)
    /\ UNCHANGED <<chemical_system, refiltered_entries, mh_outputs>>
    /\ last_request' = NoRequest
    /\ UNCHANGED <<dbvars, procvars, fan, sub, call, versionvars, stagevars, surfacevars,
                   toolvars>>

InitMH ==
    /\ db_frontend = {}
    /\ db_composition = [c \in Compositions |-> NoRow]
    /\ db_chemsys = [s \in ChemSystems |-> "absent"]
    /\ InitWorkChains
    /\ InitVersions
    /\ InitStages
    /\ InitNoSurface
    /\ InitNoTools
    /\ mh_outputs \in [1..NumMH -> JobOutputs]
    /\ chemical_system = "O-Zn"
    /\ entries = <<>>
    /\ stable_entries = <<>>
    /\ refiltered_entries = <<>>
    /\ filter_pc = "mh_energies"

NextMH == mh_energies_filter

SpecMH == InitMH /\ [][NextMH]_vars

\* ---------------------------------------------------------------------------
\* surface_builder.py: SurfaceBuilderWorkChain for a composition whose structures
\* are in the store, and the setup of AdsorbatesWorkChain that follows it
\* ---------------------------------------------------------------------------
ERROR_NO_STRUCTURES_FOUND == 301

SurfaceFrame ==
    /\ last_request' = NoRequest
    /\ UNCHANGED <<dbvars, procvars, fan, sub, call, versionvars, filtervars, stagevars,
                   mhvars, toolvars>>

\* setup: get_struct_uuid, the structures with an HSE version in the band gap window
surface_builder_setup ==
    /\ surface.pc = "setup"
    /\ \E struct_uuid \in SUBSET {structure.uuid : structure \in db_structure} :
          surface' = [surface EXCEPT
                         !.struct_uuid = struct_uuid,
                         !.pc = IF struct_uuid = {} THEN "finished" ELSE "run_facebuild",
                         !.exit_status = IF struct_uuid = {}
                                         THEN ERROR_NO_STRUCTURES_FOUND ELSE 0]
    /\ UNCHANGED db_surface
    /\ SurfaceFrame

\* run_facebuild: one face-build job per structure
run_facebuild ==
    /\ surface.pc = "run_facebuild"
    /\ surface' = [surface EXCEPT !.pc = "inspect_facebuild"]
    /\ UNCHANGED db_surface
    /\ SurfaceFrame

\* inspect_facebuild: the slabs each job returned (0: the job failed or found no slab)
inspect_facebuild ==
    /\ surface.pc = "inspect_facebuild"
    /\ \E slabs \in [surface.struct_uuid -> 0..MaxSlabs] :
          surface' = [surface EXCEPT !.slabs_uuid = slabs, !.pc = "store_results"]
    /\ UNCHANGED db_surface
    /\ SurfaceFrame

\* store_results: the body starts with return, add_slab is never called
store_results ==
    /\ surface.pc = "store_results"
    /\ surface' = [surface EXCEPT !.pc = "finished"]
    /\ UNCHANGED db_surface
    /\ SurfaceFrame

\* get_structure_uuid_surface_id(composition)
get_structure_uuid_surface_id(composition) ==
    {<<row.structure_uuid, row.id>> : row \in
        {r \in db_surface :
            \E structure \in db_structure :
                structure.uuid = r.structure_uuid /\ structure.composition = composition}}

\* AdsorbatesWorkChain.setup, once the surface builder has finished ok
adsorbates_setup ==
    /\ surface.pc = "finished"
    /\ surface.exit_status = 0
    /\ LET rows == get_structure_uuid_surface_id(StageFormula)
       IN  surface' = [surface EXCEPT
                          !.pc = "adsorbates",
                          !.structure_surface_rows = rows,
                          !.exit_status = IF rows = {}
                                          THEN ERROR_NO_STRUCTURES_FOUND ELSE 0]
    /\ UNCHANGED db_surface
    /\ SurfaceFrame

InitSurface ==
    /\ db_frontend = {}
    /\ db_composition = [c \in Compositions |-> NoRow]
    /\ db_chemsys = [s \in ChemSystems |-> "absent"]
    /\ InitWorkChains
    /\ InitVersions
    /\ InitNoFilter
    /\ InitNoMH
    /\ InitNoTools
    /\ db_structure = {[uuid |-> StructureUuids[i], composition |-> StageFormula] :
                          i \in DOMAIN StructureUuids}
    /\ run = [r \in Runs |-> NoRun]
    /\ db_surface = {}
    /\ surface = [NoSurface EXCEPT !.pc = "setup"]

NextSurface ==
    \/ surface_builder_setup
    \/ run_facebuild
    \/ inspect_facebuild
    \/ store_results
    \/ adsorbates_setup

SpecSurface == InitSurface /\ [][NextSurface]_vars

\* ---------------------------------------------------------------------------
\* db/utils.py: delete_structure on a store of structures and versions
\* ---------------------------------------------------------------------------
\* the versions a store may hold: at most one per structure and method here
VersionOf(i, method) ==
    [id |-> IF method = "r2SCAN" THEN 2 * i - 1 ELSE 2 * i,
     structure_uuid |-> StructureUuids[i], method |-> method, source |-> "NULL",
     structure |-> "v1", energy |-> "v1"]

StructureOf(i) == [uuid |-> StructureUuids[i], composition |-> StageFormula]

\* the filters of a call: a structure by uuid or the structures of a composition,
\* and all versions or those of a method
StructureFilters ==
    {[uuid |-> StructureUuids[i]] : i \in DOMAIN StructureUuids}
        \cup {[composition |-> StageFormula]}
VersionFilters == {<<>>} \cup {[method |-> method] : method \in Methods}

\* query.filter(getattr(table, attr) == value) for every attr of the filters
matches(row, filters) == \A attr \in DOMAIN filters : row[attr] = filters[attr]

\* a delete that removes the parent of every version it deleted
unversioned_all(affected_structure_uuids, versions) == affected_structure_uuids

\* the affected structures that have no remaining version
unversioned(affected_structure_uuids, versions) ==
    {uuid \in affected_structure_uuids :
        {v \in versions : v.structure_uuid = uuid} = {}}

delete_structure ==
    \E structure_filters \in StructureFilters, version_filters \in VersionFilters :
        LET versions_to_delete ==
                {v \in db_structure_version :
                    /\ matches(v, version_filters)
                    /\ \E structure \in db_structure :
                          structure.uuid = v.structure_uuid
                              /\ matches(structure, structure_filters)}
            affected_structure_uuids == {v.structure_uuid : v \in versions_to_delete}
        IN  /\ db_structure_version' = db_structure_version \ versions_to_delete
            /\ db_structure' =
                  {structure \in db_structure :
                      structure.uuid \notin
                          unversioned(affected_structure_uuids, db_structure_version')}
            /\ delete_call' = [structure_filters |-> structure_filters,
                               version_filters |-> version_filters,
                               versions_to_delete |-> versions_to_delete]
            /\ last_request' = NoRequest
            /\ UNCHANGED <<dbvars, procvars, fan, sub, call, version_call, filtervars, run,
                           mhvars, surfacevars, gen>>

\* a store whose composition row refers to stable structures, and whose versions
\* belong to structures of the store
InitDelete ==
    /\ db_frontend = {}
    /\ db_composition = [c \in Compositions |->
                            IF c = StageFormula
                            THEN [NewCompositionRow EXCEPT !.stable_struct = "nonempty"]
                            ELSE NoRow]
    /\ db_chemsys = [s \in ChemSystems |-> "absent"]
    /\ InitWorkChains
    /\ InitNoFilter
    /\ InitNoMH
    /\ InitNoSurface
    /\ InitNoTools
    /\ version_call = [k \in Callers |-> NoVersionCall]
    /\ run = [r \in Runs |-> NoRun]
    /\ \E present \in SUBSET DOMAIN StructureUuids :
          /\ db_structure = {StructureOf(i) : i \in present}
          /\ \E pairs \in SUBSET (present \X Methods) :
                db_structure_version = {VersionOf(pair[1], pair[2]) : pair \in pairs}

NextDelete == delete_structure

SpecDelete == InitDelete /\ [][NextDelete]_vars

\* ---------------------------------------------------------------------------
\* GenWorkChain.store_ml_energies: the loop over the chemical systems. Every
\* commit of the loop is a step of its own, because the other pipelines read
\* the tables between the commits.
\* ---------------------------------------------------------------------------
\* the ML relaxation of a chemical system: failed, finished with an output that
\* cannot be read, or finished with entries
MLRelaxations(system) ==
    {[is_finished_ok |-> FALSE, readable |-> FALSE, new_entries |-> <<>>],
     [is_finished_ok |-> TRUE, readable |-> FALSE, new_entries |-> <<>>]}
        \cup [is_finished_ok : {TRUE}, readable : {TRUE},
              new_entries : SeqsUpTo(Candidates(system), MaxGenEntries)]

\* the chemical systems a GenWorkChain can get, in the order of get_chemical_systems
GenSystems == {<<"Zn">>, <<"O-Zn">>, <<"Zn", "O-Zn">>}

\* a loop that takes every relaxation for a finished one
relaxed_any(wch) == TRUE

\* wch.is_finished_ok, and get_output_as_entry(wch) does not raise
relaxed(wch) == wch.is_finished_ok /\ wch.readable

GenFrame ==
    /\ last_request' = NoRequest
    /\ UNCHANGED <<db_frontend, db_composition, procvars, fan, sub, call, version_call,
                   filtervars, run, mhvars, surfacevars, delete_call>>

\* the chemical system the loop is at
gen_chemical_system == gen.chemical_systems[gen.i]

gen_looping == gen.pc = "store_ml_energies" /\ gen.i <= Len(gen.chemical_systems)

\* if not wch.is_finished_ok / except: failed_ml_e.append(chemical_system); continue
store_ml_energies_failed ==
    /\ gen_looping
    /\ ~relaxed(gen.ml_e[gen_chemical_system])
    /\ gen' = [gen EXCEPT !.failed_ml_e = @ \cup {gen_chemical_system}, !.i = @ + 1]
    /\ UNCHANGED <<db_chemsys, db_structure, db_structure_version>>
    /\ GenFrame

\* the rows add_structures("generated", ML_model, pairs) commits for a system
generated_structures(system, low_energy_entries) ==
    {[uuid |-> <<system, k>>, composition |-> low_energy_entries[k].composition,
      chemsys |-> chemical_system_of(low_energy_entries[k].composition)] :
        k \in DOMAIN low_energy_entries}

generated_versions(system, low_energy_entries, first_id) ==
    {[id |-> first_id + k, structure_uuid |-> <<system, k>>, method |-> ML_model,
      source |-> "generated", structure |-> low_energy_entries[k].structure,
      energy |-> low_energy_entries[k].energy] : k \in DOMAIN low_energy_entries}

\* unique_low_energy_chemsys and add_structures; PhaseDiagram raises without entries
store_ml_energies_add_structures ==
    /\ gen_looping
    /\ relaxed(gen.ml_e[gen_chemical_system])
    /\ LET all_entries ==
               entries_extend(gen.ml_e[gen_chemical_system].new_entries,
                              gen_chemical_system)
           low_energy_entries == get_unique_low_energy(all_entries, gen_chemical_system)
       IN  IF all_entries = <<>>
           THEN /\ gen' = [gen EXCEPT !.pc = "excepted"]
                /\ UNCHANGED <<db_structure, db_structure_version>>
           ELSE /\ db_structure' = db_structure \cup
                       generated_structures(gen_chemical_system, low_energy_entries)
                /\ db_structure_version' = db_structure_version \cup
                       generated_versions(gen_chemical_system, low_energy_entries,
                                          Cardinality(db_structure_version))
                /\ gen' = [gen EXCEPT !.pc = "update_row",
                                      !.low_energy_entries = low_energy_entries]
    /\ UNCHANGED db_chemsys
    /\ GenFrame

\* update_row(DBChemsys, row.uuid, {"gen_structures": "Ready"})
store_ml_energies_update_row ==
    /\ gen.pc = "update_row"
    /\ db_chemsys' = [db_chemsys EXCEPT ![gen_chemical_system] = "Ready"]
    /\ gen' = [gen EXCEPT !.pc = "store_ml_energies", !.i = @ + 1]
    /\ UNCHANGED <<db_structure, db_structure_version>>
    /\ GenFrame

\* if failed_ml_e: return ERROR_ML_RELAX_FAILED
store_ml_energies_return ==
    /\ gen.pc = "store_ml_energies"
    /\ gen.i > Len(gen.chemical_systems)
    /\ gen' = [gen EXCEPT !.pc = "finished",
                          !.exit_status = IF gen.failed_ml_e # {}
                                          THEN ERROR_ML_RELAX_FAILED ELSE 0]
    /\ UNCHANGED <<db_chemsys, db_structure, db_structure_version>>
    /\ GenFrame

\* get_entries_from_db restricted to one chemical system: the versions of the
\* method whose structure is of the system
get_entries_from_db(system, method) ==
    {v \in db_structure_version :
        /\ v.method = method
        /\ \E structure \in db_structure :
              structure.uuid = v.structure_uuid /\ structure.chemsys = system}

\* a GenWorkChain whose relaxations have ended, with the rows of its chemical
\* systems in DBChemsys and no structure stored yet
InitGen ==
    /\ db_frontend = {}
    /\ db_composition = [c \in Compositions |-> NoRow]
    /\ InitWorkChains
    /\ InitNoFilter
    /\ InitNoMH
    /\ InitNoSurface
    /\ InitVersions
    /\ InitStages
    /\ delete_call = NoDelete
    /\ \E systems \in GenSystems :
          /\ db_chemsys = [chemsys \in ChemSystems |->
                              IF chemsys \in Range(systems)
                              THEN "NULL" ELSE "absent"]
          /\ \E ml_e \in [Range(systems) ->
                              UNION {MLRelaxations(system) : system \in FilterSystems}] :
                /\ \A system \in Range(systems) :
                      ml_e[system] \in MLRelaxations(system)
                /\ gen = [NoGen EXCEPT !.pc = "store_ml_energies",
                                       !.chemical_systems = systems,
                                       !.ml_e = ml_e]

NextGen ==
    \/ store_ml_energies_failed
    \/ store_ml_energies_add_structures
    \/ store_ml_energies_update_row
    \/ store_ml_energies_return

SpecGen == InitGen /\ [][NextGen]_vars

\* caller k's call finds a version of the pair and applies the conflict policy
ConflictStep(k, on_conflict) ==
    /\ version_call[k].pc = "queried"
    /\ version_call[k].existing_version # 0
    /\ version_call[k].on_conflict = on_conflict
    /\ version_call'[k].pc = "idle"

\* C23: a call for a pair that has a version: under "error" the caller gets a
\* DuplicateVersion error, under "ignore" it gets no error, and in both cases the
\* version rows (payload, energy, number of rows) are what they were.
C23_ConflictIsSignalled ==
    [][\A k \in Callers :
          /\ ConflictStep(k, "error") =>
                /\ version_call'[k].returned = "DuplicateVersion"
                /\ UNCHANGED db_structure_version
          /\ ConflictStep(k, "ignore") =>
                /\ version_call'[k].returned = "True"
                /\ UNCHANGED db_structure_version]_vars

\* query_structure(... structure_uuid, method ...): query.all()
query_structure(rows, method) ==
    {row \in rows : row.structure_uuid = StructureUuid /\ row.method = method}

\* C24: a call with "override" for a pair that has a version adds no row, and every
\* row a later query_structure returns for the pair carries the supplied values.
C24_OverrideIsRead ==
    [][\A k \in Callers :
          ConflictStep(k, "override") =>
              /\ Cardinality(db_structure_version') = Cardinality(db_structure_version)
              /\ \A row \in query_structure(db_structure_version', version_call[k].method) :
                    \A col \in DOMAIN version_call[k].add_attributes :
                        row[col] = version_call[k].add_attributes[col]]_vars

\* the filter has returned for the caller's list
Filtered == filter_pc \in {"filtered", "refiltered"}

\* the entries of the list the filter was called for that are structurally
\* equivalent to an entry, in the chemical system of the call
EquivalenceGroup(entry) ==
    {i \in DOMAIN entries :
        /\ chemical_system_of(entries[i].composition) = chemical_system
        /\ matcher_fit(entries[i].structure, entry.structure)}

\* C25: of the structurally equivalent entries of the input the filter returns
\* the one of lowest energy and no other, whatever the order of the input.
C25_LowestOfGroupIsKept ==
    Filtered =>
        \A j \in DOMAIN stable_entries :
            /\ \A i \in EquivalenceGroup(stable_entries[j]) :
                   stable_entries[j].energy <= entries[i].energy
            /\ \A k \in DOMAIN stable_entries :
                   matcher_fit(stable_entries[k].structure, stable_entries[j].structure)
                       => k = j

\* C26: the filter called with its own output returns that output.
C26_FilterIsIdempotent ==
    filter_pc = "refiltered" => refiltered_entries = stable_entries

C26_Witness ==
    /\ filter_pc = "refiltered"
    /\ chemical_system = "O-Zn"
    /\ Len(stable_entries) = 2
    /\ Len(entries) = MaxEntries + Len(ElementEntries)

\* C27: a call of the filter leaves the caller's list, and the tables, as they were.
C27_FilterLeavesItsInput ==
    [][filter_pc = "entries" /\ filter_pc' # "entries" =>
          /\ entries' = entries
          /\ UNCHANGED <<dbvars, versionvars>>]_vars

\* C28: for a chemical system of one element the filter returns an entry of the
\* input if and only if no entry of the input has a lower energy.
C28_OnlyTheMinimumOfAnElement ==
    filter_pc = "filtered" /\ chemical_system = "Zn" =>
        \A i \in DOMAIN entries :
            (\E j \in DOMAIN stable_entries : stable_entries[j] = entries[i])
                <=> (\A k \in DOMAIN entries : entries[i].energy <= entries[k].energy)

\* C29: a run of PDVerificationWorkChain submits no r2SCAN job for a structure
\* that has an r2SCAN version in the store.
C29_NoJobForStoredVersion ==
    [][\A r \in Runs :
          run[r].pc = "run_scan" /\ run'[r].pc = "store_scan_result" =>
              \A uuid_str \in run'[r].scan_jobs :
                  query_structure_by_uuid(uuid_str, "r2SCAN") = {}]_vars

\* C30: however many runs have stored the CSP result of the composition, the
\* store holds the structure of that result once, as after one run.
C30_NoDuplicateStructures ==
    /\ Cardinality({st \in db_structure : st.composition = StageFormula}) <= 1
    /\ Cardinality(query_structure_by_source(StageFormula, "csp")) <= 1

\* C31: a fan-in of GenWorkChain in which at most half of the per-system jobs
\* failed, and so at least one succeeded, ends the stage successfully.
C31_GenToleratesFailedJob ==
    (/\ fan.done /\ fan.kind = "gen" /\ fan.n > 0
     /\ 2 * fan.jobs.failed <= fan.n) => fan.exit = 0

\* C32: a run of PDVerificationWorkChain in which no VASP job succeeded ends with a
\* failure exit code, and MainWorkChain does not mark the stage Done.
C32_NoSuccessIsFailure ==
    \A r \in Runs :
        (/\ run[r].pc \in {"inspect_pd_verification", "finished"}
         /\ run[r].scan_jobs # {}
         /\ run[r].scan_entries = {}) =>
            /\ run[r].exit_status # 0
            /\ run[r].pd_verification # "Done"

\* C33: every entry the filter returns is of the chemical system asked for and
\* lies strictly less than the threshold above the hull of the entries; the
\* reference entries of the elements are not returned.
C33_OnlyBelowThreshold ==
    Filtered =>
        \A j \in DOMAIN stable_entries :
            /\ chemical_system_of(stable_entries[j].composition) = chemical_system
            /\ stable_entries[j].energy
                   - hull_energy(entries, stable_entries[j].composition) < _EHULL
            /\ \A i \in DOMAIN ElementEntries : stable_entries[j] # ElementEntries[i]

\* a call for O-Zn whose list has an entry exactly at the threshold, and returns
\* another entry
C33_Witness ==
    /\ Filtered
    /\ chemical_system = "O-Zn"
    /\ stable_entries # <<>>
    /\ \E i \in DOMAIN entries :
          /\ chemical_system_of(entries[i].composition) = chemical_system
          /\ entries[i].energy - hull_energy(entries, entries[i].composition) = _EHULL

\* C34: low_energy_entries_mh is what the filter returns for the entries of all
\* the minima-hopping jobs that succeeded, taken together.
C34_FilterOverAllJobs ==
    filter_pc = "low_energy_entries_mh" =>
        stable_entries =
            get_unique_low_energy(
                entries_extend(all_entries_after(mh_outputs, Len(mh_outputs)),
                               chemical_system),
                chemical_system)

\* C35: when SurfaceBuilderWorkChain has finished successfully, the store holds a
\* DBSurface row of the parent structure for every slab a face-build job returned.
C35_SlabsAreStored ==
    (surface.pc \in {"finished", "adsorbates"} /\ surface.struct_uuid # {}) =>
        \A uuid_str \in surface.struct_uuid :
            Cardinality({row \in db_surface : row.structure_uuid = uuid_str})
                = surface.slabs_uuid[uuid_str]

\* C36: the chemical_systems input of a MainWorkChain that is submitted holds no
\* subsystem that had a DBChemsys row when the request came in.
C36_OnlyNewSubsystems ==
    [][\A p \in Procs :
          pc[p] = "absent" /\ pc'[p] # "absent" =>
              \A chemsys \in chemical_systems'[p] : db_chemsys[chemsys] = "absent"]_vars

\* a MainWorkChain submitted with some, not all, of the subsystems of its formula
C36_Witness ==
    \E p \in Procs :
        /\ pc[p] # "absent"
        /\ chemical_systems[p] # {}
        /\ chemical_systems[p] # chemical_subsystems(formula[p])

\* the versions of the store that the filters of a call select
Selected(structure_filters, version_filters) ==
    {v \in db_structure_version :
        /\ \A attr \in DOMAIN version_filters : v[attr] = version_filters[attr]
        /\ \E structure \in db_structure :
              /\ structure.uuid = v.structure_uuid
              /\ \A attr \in DOMAIN structure_filters :
                    structure[attr] = structure_filters[attr]}

\* C37: a call of delete_structure removes exactly the versions its filters
\* select, removes a structure exactly when the call took its last version, and
\* leaves the DBComposition rows as they were.
C37_DeleteCascadesUpOnly ==
    [][delete_call' # delete_call =>
          LET selected == Selected(delete_call'.structure_filters,
                                   delete_call'.version_filters)
          IN  /\ db_structure_version' = db_structure_version \ selected
              /\ \A structure \in db_structure :
                    structure \notin db_structure' <=>
                        /\ \E v \in selected : v.structure_uuid = structure.uuid
                        /\ \A v \in db_structure_version' :
                              v.structure_uuid # structure.uuid
              /\ db_structure' \subseteq db_structure
              /\ UNCHANGED db_composition]_vars

\* a call that deleted versions of two structures and left one of them in the
\* store, with the version it still has
C37_Witness ==
    /\ delete_call.versions_to_delete # {}
    /\ \E v \in delete_call.versions_to_delete :
          \A structure \in db_structure : structure.uuid # v.structure_uuid
    /\ \E v \in delete_call.versions_to_delete :
          \E w \in db_structure_version : w.structure_uuid = v.structure_uuid
    /\ db_composition[StageFormula].stable_struct = "nonempty"

\* p's PhaseDiagramMLWorkChain is at wait_for_data (is_data_available polls)
WaitingForData(p) == pd_ml_running(p) /\ sub[p].pc = "wait_for_data"

\* C38: a PhaseDiagramMLWorkChain is at wait_for_data only after its own gen
\* sub-workchain has ended and left every subsystem of the chain Ready, so no
\* waiting chain holds back a subsystem another chain waits for, and every
\* wait ends.
C38_NoMutualWait ==
    /\ [](\A p \in Procs :
            WaitingForData(p) => \A chemsys \in chemical_systems[p] :
                              db_chemsys[chemsys] = "Ready")
    /\ \A p \in Procs : WaitingForData(p) ~> ~WaitingForData(p)

\* a chain that waits, with subsystems of its own, for a subsystem that the
\* running chain of another composition has not generated yet
C38_Witness ==
    \E p, q \in Procs :
        /\ WaitingForData(p)
        /\ chemical_systems[p] # {}
        /\ pd_ml_running(q)
        /\ sub[q].pc \in {"none", "inspect_csp_cals", "gen_calcs"}
        /\ \E chemsys \in chemical_systems[q] :
              /\ chemsys \in chemical_subsystems(formula[p])
              /\ db_chemsys[chemsys] = "NULL"

\* the structures and energies the filter keeps of the output of the relaxation
\* of a chemical system
Kept(system) ==
    LET low_energy_entries ==
            get_unique_low_energy(
                entries_extend(gen.ml_e[system].new_entries, system), system)
    IN  {<<low_energy_entries[k].structure, low_energy_entries[k].energy>> :
            k \in DOMAIN low_energy_entries}

\* C39: a chemical system of a GenWorkChain is Ready only when its relaxation
\* finished with a readable output, and then the generated structures that a
\* pipeline reads for the system are the ones the filter kept, all committed.
C39_ReadyAfterStructures ==
    gen.pc # "none" =>
        \A system \in Range(gen.chemical_systems) :
            db_chemsys[system] = "Ready" =>
                /\ gen.ml_e[system].is_finished_ok /\ gen.ml_e[system].readable
                /\ {<<v.structure, v.energy>> : v \in get_entries_from_db(system, ML_model)}
                      = Kept(system)

\* a GenWorkChain that ended with ERROR_ML_RELAX_FAILED: the system whose
\* relaxation failed is not Ready, the other one is Ready with structures stored
C39_Witness ==
    /\ gen.pc = "finished"
    /\ gen.exit_status = ERROR_ML_RELAX_FAILED
    /\ \E system \in Range(gen.chemical_systems) :
          /\ db_chemsys[system] = "Ready"
          /\ Cardinality(get_entries_from_db(system, ML_model)) = 2
    /\ \E system \in gen.failed_ml_e : db_chemsys[system] = "NULL"

\* C40: no two entries of the list the filter returns match each other under
\* the structure matcher.
C40_NoTwoReturnedMatch ==
    Filtered =>
        \A j, k \in DOMAIN stable_entries :
            j # k => ~matcher_fit(stable_entries[j].structure,
                                  stable_entries[k].structure)
====
